---- MODULE Spec2Model ----
(***************************************************************************)
(* A model of the ears binding layer: the listener facade (listener.rs),   *)
(* the ReverbEffect object (reverb_effect.rs) and the SoundData object     *)
(* (sound_data.rs), together with the part of the external audio           *)
(* subsystem (OpenAL) and of the sound-file decoder that these three       *)
(* files call.                                                             *)
(*                                                                         *)
(* The external subsystem is the record `al`.  Every call the binding      *)
(* makes into it is an operator from a subsystem state to a subsystem      *)
(* state that also appends the call, with the error it raised, to          *)
(* al.calls, the log of the calls made by the operation in progress.       *)
(* Whether the subsystem accepts a write or an allocation is not decided   *)
(* by the binding (it depends on the value range, on memory, on the        *)
(* extensions the device has): the verdict is an input of each handler,    *)
(* drawn with \E in the actions.  A rejected call changes nothing and      *)
(* records its error code in the error flag if the flag is clear.          *)
(*                                                                         *)
(* f32 values are modelled by small integers: the binding never computes   *)
(* with them, it only passes them through.                                 *)
(***************************************************************************)
EXTENDS Integers, Sequences, FiniteSets, TLC

-----------------------------------------------------------------------------
(* Bounds of the model *)

\* Gains handed to set_volume range over -1 .. MaxGain (1 is unattenuated).
MaxGain == 2
\* Handles are generated for at most MaxHandles objects (a slot and an effect
\* for a ReverbEffect, a buffer for a SoundData).
MaxHandles == 2
\* Frame counts of the sound files range over 0 .. MaxFrames.
MaxFrames == 2
\* Channel counts of the sound files range over 0 .. MaxChannels.
MaxChannels == 3
\* At most MaxSounds sound sources reference one auxiliary effect slot.
MaxSounds == 1

-----------------------------------------------------------------------------
(* Values *)

Gains == -1 .. MaxGain

\* The 3-vectors the callers pass; the components differ so that a swap shows.
Vec3 == { <<0, 0, 0>>, <<1, 2, 3>>, <<3, 1, 2>> }

ZeroVec == <<0, 0, 0>>

\* The error codes of the subsystem's error flag.
AL_NO_ERROR == "AL_NO_ERROR"
AL_INVALID_NAME == "AL_INVALID_NAME"
AL_INVALID_VALUE == "AL_INVALID_VALUE"
AL_INVALID_OPERATION == "AL_INVALID_OPERATION"
AL_OUT_OF_MEMORY == "AL_OUT_OF_MEMORY"

\* The null effect: a slot bound to it applies nothing.
AL_EFFECT_NULL == 0

\* The empty function: no handle, no object.
NoHandles == [h \in {} |-> 0]

VARIABLES
    context,     \* "uninit", "valid" or "destroyed": the process-wide context
    al,          \* the external subsystem's state and the calls of the last operation
    reverbs,     \* the ReverbEffect objects alive in the caller
    sound_datas, \* the SoundData objects alive in the caller
    last         \* the last operation of the binding: its name, argument and result

vars == <<context, al, reverbs, sound_datas, last>>

-----------------------------------------------------------------------------
(* The external audio subsystem *)

\* check_openal_context!: whether a valid context exists.
ValidContext == context = "valid"

\* The subsystem records `code` in its error flag unless an error is pending.
SetError(s, code) ==
    IF s.error = AL_NO_ERROR THEN [s EXCEPT !.error = code] ELSE s

\* The call `fn(args)` is logged with the error it raised.
Logged(s, fn, args, status) ==
    [s EXCEPT !.calls = Append(@, <<fn, args, status>>)]

\* A call the subsystem rejects with `code`: nothing changes but the flag.
Rejected(s, fn, args, code) == Logged(SetError(s, code), fn, args, code)

\* alListenerf(AL_GAIN, volume)
alListenerf(s, volume, accepted) ==
    IF accepted
    THEN Logged([s EXCEPT !.listener.gain = volume],
                "alListenerf", <<"AL_GAIN", volume>>, AL_NO_ERROR)
    ELSE Rejected(s, "alListenerf", <<"AL_GAIN", volume>>, AL_INVALID_VALUE)

\* alListenerfv(param, &values[0]): the subsystem reads 3 floats for a
\* position or a velocity and 6 for an orientation.
alListenerfv(s, param, values, accepted) ==
    IF accepted
    THEN Logged([s EXCEPT !.listener[param] = values],
                "alListenerfv", <<param, values>>, AL_NO_ERROR)
    ELSE Rejected(s, "alListenerfv", <<param, values>>, AL_INVALID_VALUE)

\* alGetListenerf / alGetListenerfv(param, &mut out): a read, never rejected.
alGetListener(s, param) ==
    Logged(s, "alGetListener", <<param>>, AL_NO_ERROR)

\* al::openal_has_error(): alGetError returns the pending error and clears it.
alGetError(s) ==
    Logged([s EXCEPT !.error = AL_NO_ERROR], "alGetError", <<>>, s.error)

\* The subsystem with the log of the previous operation cleared: the state
\* in which an operation starts.
Enter(s) == [s EXCEPT !.calls = <<>>]

\* The names of the calls logged.
CallNames(s) == [i \in 1 .. Len(s.calls) |-> s.calls[i][1]]

-----------------------------------------------------------------------------
(* listener.rs *)

\* set_volume(volume)
set_volume(s, volume, accepted) ==
    IF ~ValidContext THEN s
    ELSE alListenerf(s, volume, accepted)

\* get_volume(): the pair of the subsystem's state and the value returned.
get_volume(s) ==
    IF ~ValidContext THEN <<s, 0>>
    ELSE <<alGetListener(s, "gain"), s.listener.gain>>

\* set_position(position)
set_position(s, position, accepted) ==
    IF ~ValidContext THEN s
    ELSE alListenerfv(s, "position", position, accepted)

\* get_position()
get_position(s) ==
    IF ~ValidContext THEN <<s, ZeroVec>>
    ELSE <<alGetListener(s, "position"), s.listener.position>>

\* The 6 floats packed up first.
PackOrientationSwapped(at, up) ==
    <<up[1], up[2], up[3], at[1], at[2], at[3]>>

\* The 6 floats set_orientation packs: at first, up second.
PackOrientation(at, up) ==
    <<at[1], at[2], at[3], up[1], up[2], up[3]>>

\* set_orientation(orientation_at, orientation_up)
set_orientation(s, at, up, accepted) ==
    IF ~ValidContext THEN s
    ELSE alListenerfv(s, "orientation", PackOrientation(at, up), accepted)

\* get_orientation(): the 6 floats read are split into (at, up).
get_orientation(s) ==
    IF ~ValidContext THEN <<s, <<ZeroVec, ZeroVec>>>>
    ELSE LET o == s.listener.orientation
         IN  <<alGetListener(s, "orientation"),
               << <<o[1], o[2], o[3]>>, <<o[4], o[5], o[6]>> >> >>

\* set_velocity without its look at the context.
set_velocity_unchecked(s, velocity, accepted) ==
    alListenerfv(s, "velocity", velocity, accepted)

\* set_velocity(velocity)
set_velocity(s, velocity, accepted) ==
    IF ~ValidContext THEN s
    ELSE alListenerfv(s, "velocity", velocity, accepted)

\* get_velocity()
get_velocity(s) ==
    IF ~ValidContext THEN <<s, ZeroVec>>
    ELSE <<alGetListener(s, "velocity"), s.listener.velocity>>

-----------------------------------------------------------------------------
(* The subsystem's effect objects, auxiliary effect slots and buffers *)

\* f with x mapped to v.
Put(f, x, v) == [y \in DOMAIN f \cup {x} |-> IF y = x THEN v ELSE f[y]]

\* f without x.
Without(f, x) == [y \in DOMAIN f \ {x} |-> f[y]]

\* The name a generate call writes into the caller's variable: a fresh name,
\* or nothing (the variable keeps its initial 0) when the call is rejected.
GenName(s, kind, accepted) == IF accepted THEN s.gen[kind] + 1 ELSE 0

\* alGenAuxiliaryEffectSlots(1, &mut effect_slot_id): a slot bound to no effect.
alGenAuxiliaryEffectSlots(s, accepted) ==
    IF accepted
    THEN LET id == GenName(s, "slot", TRUE)
         IN  Logged([s EXCEPT !.slots = Put(@, id, AL_EFFECT_NULL),
                              !.attached = Put(@, id, 0),
                              !.gen.slot = id],
                    "alGenAuxiliaryEffectSlots", <<id>>, AL_NO_ERROR)
    ELSE Rejected(s, "alGenAuxiliaryEffectSlots", <<0>>, AL_OUT_OF_MEMORY)

\* The type of an effect: the null effect until it is tagged, then reverb.
AL_EFFECT_REVERB == 1

\* The properties of an effect object: its type and the thirteen reverb
\* parameters.  Abstract values: 0 is the default of each.
EffectProps ==
    { "AL_EFFECT_TYPE", "density", "diffusion", "gain", "gainhf", "decay_time",
      "decay_hfratio", "reflections_gain", "reflections_delay",
      "late_reverb_gain", "late_reverb_delay", "air_absorption_gainhf",
      "room_rolloff_factor", "decay_hflimit" }

\* alGenEffects(1, &mut effect_id): a null effect with every default.
alGenEffects(s, accepted) ==
    IF accepted
    THEN LET id == GenName(s, "effect", TRUE)
         IN  Logged([s EXCEPT !.effects = Put(@, id, [p \in EffectProps |-> 0]),
                              !.gen.effect = id],
                    "alGenEffects", <<id>>, AL_NO_ERROR)
    ELSE Rejected(s, "alGenEffects", <<0>>, AL_OUT_OF_MEMORY)

\* alEffecti / alEffectf(effect, param, value): one property of an effect.
alEffect(s, fn, effect, param, value, accepted) ==
    IF effect \notin DOMAIN s.effects
    THEN Rejected(s, fn, <<effect, param, value>>, AL_INVALID_NAME)
    ELSE IF ~accepted
    THEN Rejected(s, fn, <<effect, param, value>>, AL_INVALID_VALUE)
    ELSE Logged([s EXCEPT !.effects[effect][param] = value],
                fn, <<effect, param, value>>, AL_NO_ERROR)

\* alAuxiliaryEffectSloti(slot, AL_EFFECTSLOT_EFFECT, effect): the slot
\* applies the effect from now on (AL_EFFECT_NULL: applies nothing).
alAuxiliaryEffectSloti(s, slot, effect, accepted) ==
    IF slot \notin DOMAIN s.slots
    THEN Rejected(s, "alAuxiliaryEffectSloti", <<slot, effect>>, AL_INVALID_NAME)
    ELSE IF effect # AL_EFFECT_NULL /\ effect \notin DOMAIN s.effects
    THEN Rejected(s, "alAuxiliaryEffectSloti", <<slot, effect>>, AL_INVALID_VALUE)
    ELSE IF ~accepted
    THEN Rejected(s, "alAuxiliaryEffectSloti", <<slot, effect>>, AL_OUT_OF_MEMORY)
    ELSE Logged([s EXCEPT !.slots[slot] = effect],
                "alAuxiliaryEffectSloti", <<slot, effect>>, AL_NO_ERROR)

\* One more release of the handle `id` of kind `kind`.
CountDelete(s, kind, id) ==
    [s EXCEPT !.deleted[kind] =
        Put(@, id, IF id \in DOMAIN @ THEN @[id] + 1 ELSE 1)]

\* ffi::alDeleteEffects(1, &mut effect_id)
alDeleteEffects(s, effect) ==
    IF effect \notin DOMAIN s.effects
    THEN Rejected(s, "alDeleteEffects", <<effect>>, AL_INVALID_NAME)
    ELSE Logged(CountDelete([s EXCEPT !.effects = Without(@, effect)],
                            "effect", effect),
                "alDeleteEffects", <<effect>>, AL_NO_ERROR)

\* ffi::alDeleteAuxiliaryEffectSlots(1, &mut effect_slot_id): refused while a
\* source still references the slot.
alDeleteAuxiliaryEffectSlots(s, slot) ==
    IF slot \notin DOMAIN s.slots
    THEN Rejected(s, "alDeleteAuxiliaryEffectSlots", <<slot>>, AL_INVALID_NAME)
    ELSE IF s.attached[slot] > 0
    THEN Rejected(s, "alDeleteAuxiliaryEffectSlots", <<slot>>, AL_INVALID_OPERATION)
    ELSE Logged(CountDelete([s EXCEPT !.slots = Without(@, slot),
                                      !.attached = Without(@, slot)],
                            "slot", slot),
                "alDeleteAuxiliaryEffectSlots", <<slot>>, AL_NO_ERROR)

-----------------------------------------------------------------------------
(* reverb_effect.rs *)

\* Results.
Ok(v) == <<"Ok", v>>
Err(e) == <<"Err", e>>
IsOk(r) == r[1] = "Ok"
InvalidOpenALContext == <<"InvalidOpenALContext">>
InternalOpenALError(err) == <<"InternalOpenALError", err>>

\* The thirteen fields of ReverbProperties, in the order preset writes them.
ParamOrder ==
    << "density", "diffusion", "gain", "gainhf", "decay_time", "decay_hfratio",
       "reflections_gain", "reflections_delay", "late_reverb_gain",
       "late_reverb_delay", "air_absorption_gainhf", "room_rolloff_factor",
       "decay_hflimit" >>

Params == {ParamOrder[i] : i \in 1 .. Len(ParamOrder)}

\* The property sets handed to preset.
Presets == { [p \in Params |-> 1], [p \in Params |-> 2] }

\* The calls of a construction that the subsystem may reject: the two
\* allocations, the type tag, the thirteen writes and the bind.
ReverbCalls == {"slot", "effect", "type", "bind"} \cup Params

\* The verdict of the subsystem on one construction: the calls it rejects
\* (none, or one of them).
Rejections == {{}} \cup {{c} : c \in ReverbCalls}

\* ReverbEffect::new() without its look at the context.
new_unchecked(s, rejected) ==
    LET s1 == alGenAuxiliaryEffectSlots(s, "slot" \notin rejected)
        effect_slot_id == GenName(s, "slot", "slot" \notin rejected)
        s2 == alGenEffects(s1, "effect" \notin rejected)
        effect_id == GenName(s1, "effect", "effect" \notin rejected)
        s3 == alEffect(s2, "alEffecti", effect_id,
                       "AL_EFFECT_TYPE", AL_EFFECT_REVERB, "type" \notin rejected)
        s4 == alGetError(s3)
    IN  IF s3.error # AL_NO_ERROR
        THEN [al |-> s4, ret |-> Err(InternalOpenALError(s3.error))]
        ELSE [al |-> s4,
              ret |-> Ok([effect_id |-> effect_id,
                          effect_slot_id |-> effect_slot_id])]

\* ReverbEffect::new() deleting what it generated when the check fails.
new_with_rollback(s, rejected) ==
    IF ~ValidContext THEN [al |-> s, ret |-> Err(InvalidOpenALContext)]
    ELSE LET r == new_unchecked(s, rejected)
             s1 == alGenAuxiliaryEffectSlots(s, "slot" \notin rejected)
             effect_slot_id == GenName(s, "slot", "slot" \notin rejected)
             effect_id == GenName(s1, "effect", "effect" \notin rejected)
         IN  IF IsOk(r.ret) THEN r
             ELSE [al |-> alDeleteAuxiliaryEffectSlots(
                              alDeleteEffects(r.al, effect_id), effect_slot_id),
                   ret |-> r.ret]

\* ReverbEffect::new(): the subsystem's state and the Result.
new(s, rejected) ==
    IF ~ValidContext THEN [al |-> s, ret |-> Err(InvalidOpenALContext)]
    ELSE LET s1 == alGenAuxiliaryEffectSlots(s, "slot" \notin rejected)
             effect_slot_id == GenName(s, "slot", "slot" \notin rejected)
             s2 == alGenEffects(s1, "effect" \notin rejected)
             effect_id == GenName(s1, "effect", "effect" \notin rejected)
             s3 == alEffect(s2, "alEffecti", effect_id,
                            "AL_EFFECT_TYPE", AL_EFFECT_REVERB,
                            "type" \notin rejected)
             s4 == alGetError(s3)
         IN  IF s3.error # AL_NO_ERROR
             THEN [al |-> s4, ret |-> Err(InternalOpenALError(s3.error))]
             ELSE [al |-> s4,
                   ret |-> Ok([effect_id |-> effect_id,
                               effect_slot_id |-> effect_slot_id])]

\* update_slot(): binds the effect into the slot.
update_slot(s, self, accepted) ==
    IF ~ValidContext THEN s
    ELSE alAuxiliaryEffectSloti(s, self.effect_slot_id, self.effect_id, accepted)

\* set_density() ... set_room_rolloff_factor(): one alEffectf each.
set_f(s, self, param, value, accepted) ==
    IF ~ValidContext THEN s
    ELSE alEffect(s, "alEffectf", self.effect_id, param, value, accepted)

set_density(s, self, value, accepted) == set_f(s, self, "density", value, accepted)
set_diffusion(s, self, value, accepted) == set_f(s, self, "diffusion", value, accepted)
set_gain(s, self, value, accepted) == set_f(s, self, "gain", value, accepted)
set_gainhf(s, self, value, accepted) == set_f(s, self, "gainhf", value, accepted)
set_decay_time(s, self, value, accepted) == set_f(s, self, "decay_time", value, accepted)
set_decay_hfratio(s, self, value, accepted) ==
    set_f(s, self, "decay_hfratio", value, accepted)
set_reflections_gain(s, self, value, accepted) ==
    set_f(s, self, "reflections_gain", value, accepted)
set_reflections_delay(s, self, value, accepted) ==
    set_f(s, self, "reflections_delay", value, accepted)
set_late_reverb_gain(s, self, value, accepted) ==
    set_f(s, self, "late_reverb_gain", value, accepted)
set_late_reverb_delay(s, self, value, accepted) ==
    set_f(s, self, "late_reverb_delay", value, accepted)
set_air_absorption_gainhf(s, self, value, accepted) ==
    set_f(s, self, "air_absorption_gainhf", value, accepted)
set_room_rolloff_factor(s, self, value, accepted) ==
    set_f(s, self, "room_rolloff_factor", value, accepted)

\* set_decay_hflimit(): the one integer property, alEffecti.
set_decay_hflimit(s, self, value, accepted) ==
    IF ~ValidContext THEN s
    ELSE alEffect(s, "alEffecti", self.effect_id, "decay_hflimit", value, accepted)

\* The thirteen writes of preset, in order; `rejected` are the properties
\* whose write the subsystem rejects.
apply_properties(s, effect, p, rejected) ==
    LET ok(param) == param \notin rejected
        s1  == set_density(s, effect, p.density, ok("density"))
        s2  == set_diffusion(s1, effect, p.diffusion, ok("diffusion"))
        s3  == set_gain(s2, effect, p.gain, ok("gain"))
        s4  == set_gainhf(s3, effect, p.gainhf, ok("gainhf"))
        s5  == set_decay_time(s4, effect, p.decay_time, ok("decay_time"))
        s6  == set_decay_hfratio(s5, effect, p.decay_hfratio, ok("decay_hfratio"))
        s7  == set_reflections_gain(s6, effect, p.reflections_gain,
                                    ok("reflections_gain"))
        s8  == set_reflections_delay(s7, effect, p.reflections_delay,
                                     ok("reflections_delay"))
        s9  == set_late_reverb_gain(s8, effect, p.late_reverb_gain,
                                    ok("late_reverb_gain"))
        s10 == set_late_reverb_delay(s9, effect, p.late_reverb_delay,
                                     ok("late_reverb_delay"))
        s11 == set_air_absorption_gainhf(s10, effect, p.air_absorption_gainhf,
                                         ok("air_absorption_gainhf"))
        s12 == set_room_rolloff_factor(s11, effect, p.room_rolloff_factor,
                                       ok("room_rolloff_factor"))
    IN  set_decay_hflimit(s12, effect, p.decay_hflimit, ok("decay_hflimit"))

\* ReverbEffect::preset with the bind made before the aggregate check.
preset_bind_first(s, reverb_properties, rejected) ==
    LET r == new(s, rejected)
    IN  IF ~IsOk(r.ret) THEN r
        ELSE LET effect == r.ret[2]
                 s13 == apply_properties(r.al, effect, reverb_properties, rejected)
                 s14 == update_slot(s13, effect, "bind" \notin rejected)
                 s15 == alGetError(s14)
             IN  IF s14.error # AL_NO_ERROR
                 THEN [al |-> s15, ret |-> Err(InternalOpenALError(s14.error))]
                 ELSE [al |-> s15, ret |-> Ok(effect)]

\* ReverbEffect::preset(reverb_properties)
preset(s, reverb_properties, rejected) ==
    LET r == new(s, rejected)
    IN  IF ~IsOk(r.ret) THEN r
        ELSE LET effect == r.ret[2]
                 s13 == apply_properties(r.al, effect, reverb_properties, rejected)
                 s14 == alGetError(s13)
             IN  IF s13.error # AL_NO_ERROR
                 THEN [al |-> s14, ret |-> Err(InternalOpenALError(s13.error))]
                 ELSE [al |-> update_slot(s14, effect, "bind" \notin rejected), ret |-> Ok(effect)]

\* slot()
slot(self) == self.effect_slot_id

\* Drop for ReverbEffect deleting the effect object alone.
drop_reverb_effect_only(s, self) ==
    IF ~ValidContext THEN s
    ELSE LET s1 == alAuxiliaryEffectSloti(s, self.effect_slot_id, AL_EFFECT_NULL, TRUE)
             s2 == alDeleteEffects(s1, self.effect_id)
         IN  alGetError(s2)

\* Drop for ReverbEffect: unbind the slot, delete both handles, query the
\* error flag (an error is only printed).
drop_reverb(s, self) ==
    IF ~ValidContext THEN s
    ELSE LET s1 == alAuxiliaryEffectSloti(s, self.effect_slot_id, AL_EFFECT_NULL, TRUE)
             s2 == alDeleteEffects(s1, self.effect_id)
             s3 == alDeleteAuxiliaryEffectSlots(s2, self.effect_slot_id)
         IN  alGetError(s3)

-----------------------------------------------------------------------------
(* The subsystem's buffers, and the sound-file decoder *)

\* alGenBuffers(1, &mut buffer_id): a buffer that holds nothing yet.
alGenBuffers(s, accepted) ==
    IF accepted
    THEN LET id == GenName(s, "buffer", TRUE)
         IN  Logged([s EXCEPT !.buffers = Put(@, id, [uploads |-> 0, format |-> 0,
                                                      size |-> 0, freq |-> 0]),
                              !.gen.buffer = id],
                    "alGenBuffers", <<id>>, AL_NO_ERROR)
    ELSE Rejected(s, "alGenBuffers", <<0>>, AL_OUT_OF_MEMORY)

\* alBufferData(buffer, format, data, size, freq): the samples are copied
\* into the buffer.
alBufferData(s, buffer, format, size, freq, accepted) ==
    IF buffer \notin DOMAIN s.buffers
    THEN Rejected(s, "alBufferData", <<buffer, format, size, freq>>, AL_INVALID_NAME)
    ELSE IF ~accepted
    THEN Rejected(s, "alBufferData", <<buffer, format, size, freq>>, AL_INVALID_VALUE)
    ELSE Logged([s EXCEPT !.buffers[buffer] =
                    [uploads |-> @.uploads + 1, format |-> format,
                     size |-> size, freq |-> freq]],
                "alBufferData", <<buffer, format, size, freq>>, AL_NO_ERROR)

\* ffi::alDeleteBuffers(1, &mut al_buffer).  Without a current context the
\* subsystem does nothing at all.
alDeleteBuffers(s, buffer) ==
    IF ~ValidContext
    THEN Logged(s, "alDeleteBuffers", <<buffer>>, AL_INVALID_OPERATION)
    ELSE IF buffer \notin DOMAIN s.buffers
    THEN Rejected(s, "alDeleteBuffers", <<buffer>>, AL_INVALID_NAME)
    ELSE Logged(CountDelete([s EXCEPT !.buffers = Without(@, buffer)],
                            "buffer", buffer),
                "alDeleteBuffers", <<buffer>>, AL_NO_ERROR)

\* The buffer formats.
AL_FORMAT_MONO16 == "AL_FORMAT_MONO16"
AL_FORMAT_STEREO16 == "AL_FORMAT_STEREO16"
None == <<"None">>
Some(v) == <<"Some", v>>

\* al::get_channels_format(channels): a format for mono and stereo only.
get_channels_format(channels) ==
    CASE channels = 1 -> Some(AL_FORMAT_MONO16)
      [] channels = 2 -> Some(AL_FORMAT_STEREO16)
      [] OTHER -> None

\* The files a path may name: one the decoder cannot open, and the files it
\* opens, with their channel count, frame count and tags.
Files ==
    { [opens |-> FALSE, channels |-> 0, frames |-> 0, samplerate |-> 0,
       tags |-> "none"] }
    \cup [ opens : {TRUE}, channels : 1 .. MaxChannels, frames : 0 .. MaxFrames,
           samplerate : {44100}, tags : {"none", "title"} ]

\* A call of the decoder, logged with the calls into the subsystem.
Decoder(s, fn, args, status) == Logged(s, fn, args, status)

-----------------------------------------------------------------------------
(* sound_data.rs *)

LoadError(err) == <<"LoadError", err>>
InvalidFormat == <<"InvalidFormat">>

\* size_of::<i16>()
SizeOfI16 == 2

\* The verdicts of the subsystem on the two buffer calls of SoundData::new.
BufferRejections == {{}, {"gen"}, {"data"}}

\* The total sample count: channels as i64 * frames.
SampleCountFrames(channels, frames) == frames

SampleCount(channels, frames) == channels * frames

\* SndFile::new failed: the decoder's diagnostic is wrapped in a LoadError.
open_error_as_format(s) ==
    [al |-> Decoder(s, "SndFile::new", <<>>, "SF_ERR_OPEN"),
     ret |-> Err(InvalidFormat)]

open_error(s) ==
    [al |-> Decoder(s, "SndFile::new", <<>>, "SF_ERR_OPEN"),
     ret |-> Err(LoadError("SF_ERR_OPEN"))]

\* SoundData::new with the buffer generated before the format is looked up.
sound_data_new_late_format(s, file, rejected) ==
    IF ~ValidContext THEN [al |-> s, ret |-> Err(InvalidOpenALContext)]
    ELSE IF ~file.opens THEN open_error(s)
    ELSE LET s0 == Decoder(s, "SndFile::new", <<>>, "SF_OK")
             infos == [channels |-> file.channels, frames |-> file.frames,
                       samplerate |-> file.samplerate]
             nb_sample == SampleCount(infos.channels, infos.frames)
             s1 == Decoder(s0, "read_i16", <<nb_sample>>, "SF_OK")
             len == SizeOfI16 * nb_sample
             s2 == alGenBuffers(s1, "gen" \notin rejected)
             buffer_id == GenName(s1, "buffer", "gen" \notin rejected)
             format == get_channels_format(infos.channels)
         IN  IF format = None
             THEN [al |-> s2, ret |-> Err(InvalidFormat)]
             ELSE LET s3 == alBufferData(s2, buffer_id, format[2], len,
                                         infos.samplerate, "data" \notin rejected)
                      s4 == alGetError(s3)
                  IN  IF s3.error # AL_NO_ERROR
                      THEN [al |-> s4,
                            ret |-> Err(InternalOpenALError(s3.error))]
                      ELSE [al |-> Decoder(Decoder(s4, "get_sound_tags", <<>>, "SF_OK"),
                                           "close", <<>>, "SF_OK"),
                            ret |-> Ok([sound_tags |-> file.tags,
                                        snd_info |-> infos,
                                        nb_sample |-> nb_sample,
                                        al_buffer |-> buffer_id])]

\* SoundData::new() uploading the samples a second time before it returns.
sound_data_new_upload_twice(s, file, rejected) ==
    IF ~ValidContext THEN [al |-> s, ret |-> Err(InvalidOpenALContext)]
    ELSE IF ~file.opens THEN open_error(s)
    ELSE LET s0 == Decoder(s, "SndFile::new", <<>>, "SF_OK")
             infos == [channels |-> file.channels, frames |-> file.frames,
                       samplerate |-> file.samplerate]
             nb_sample == SampleCount(infos.channels, infos.frames)
             s1 == Decoder(s0, "read_i16", <<nb_sample>>, "SF_OK")
             len == SizeOfI16 * nb_sample
             format == get_channels_format(infos.channels)
         IN  IF format = None
             THEN [al |-> s1, ret |-> Err(InvalidFormat)]
             ELSE LET s2 == alGenBuffers(s1, "gen" \notin rejected)
                      buffer_id == GenName(s1, "buffer", "gen" \notin rejected)
                      s3 == alBufferData(s2, buffer_id, format[2], len,
                                         infos.samplerate, "data" \notin rejected)
                      s4 == alGetError(s3)
                  IN  IF s3.error # AL_NO_ERROR
                      THEN [al |-> s4,
                            ret |-> Err(InternalOpenALError(s3.error))]
                      ELSE LET s5 == Decoder(s4, "get_sound_tags", <<>>, "SF_OK")
                               s6 == Decoder(s5, "close", <<>>, "SF_OK")
                               s7 == alBufferData(s6, buffer_id, format[2], len,
                                                  infos.samplerate, TRUE)
                           IN  [al |-> s7,
                                ret |-> Ok([sound_tags |-> file.tags,
                                            snd_info |-> infos,
                                            nb_sample |-> nb_sample,
                                            al_buffer |-> buffer_id])]

\* SoundData::new(path): `file` is what the path names.
sound_data_new(s, file, rejected) ==
    IF ~ValidContext THEN [al |-> s, ret |-> Err(InvalidOpenALContext)]
    ELSE IF ~file.opens THEN open_error(s)
    ELSE LET s0 == Decoder(s, "SndFile::new", <<>>, "SF_OK")
             infos == [channels |-> file.channels, frames |-> file.frames,
                       samplerate |-> file.samplerate]
             nb_sample == SampleCount(infos.channels, infos.frames)
             s1 == Decoder(s0, "read_i16", <<nb_sample>>, "SF_OK")
             len == SizeOfI16 * nb_sample
             format == get_channels_format(infos.channels)
         IN  IF format = None
             THEN [al |-> s1, ret |-> Err(InvalidFormat)]
             ELSE LET s2 == alGenBuffers(s1, "gen" \notin rejected)
                      buffer_id == GenName(s1, "buffer", "gen" \notin rejected)
                      s3 == alBufferData(s2, buffer_id, format[2], len,
                                         infos.samplerate, "data" \notin rejected)
                      s4 == alGetError(s3)
                  IN  IF s3.error # AL_NO_ERROR
                      THEN [al |-> s4,
                            ret |-> Err(InternalOpenALError(s3.error))]
                      ELSE LET s5 == Decoder(s4, "get_sound_tags", <<>>, "SF_OK")
                               s6 == Decoder(s5, "close", <<>>, "SF_OK")
                           IN  [al |-> s6,
                                ret |-> Ok([sound_tags |-> file.tags,
                                            snd_info |-> infos,
                                            nb_sample |-> nb_sample,
                                            al_buffer |-> buffer_id])]

\* get_sndinfo(s_data)
get_sndinfo(s_data) == s_data.snd_info

\* get_buffer(s_data)
get_buffer(s_data) == s_data.al_buffer

\* AudioTags::get_tags(): a clone of the tags.
get_tags(self) == self.sound_tags

\* Drop for SoundData: the buffer is deleted, with no look at the context.
drop_sound_data(s, self) == alDeleteBuffers(s, self.al_buffer)

-----------------------------------------------------------------------------
(* The initial state *)

\* A fresh context: the listener's documented defaults, no handle, no error.
InitAl ==
    [ error    |-> AL_NO_ERROR,
      listener |-> [ gain        |-> 1,
                     position    |-> ZeroVec,
                     orientation |-> <<0, 0, -1, 0, 1, 0>>,
                     velocity    |-> ZeroVec ],
      slots    |-> NoHandles,
      effects  |-> NoHandles,
      buffers  |-> NoHandles,
      attached |-> NoHandles,
      gen      |-> [slot |-> 0, effect |-> 0, buffer |-> 0],
      deleted  |-> [slot |-> NoHandles, effect |-> NoHandles, buffer |-> NoHandles],
      calls    |-> <<>> ]

NoOp == [op |-> "none", arg |-> <<>>, ret |-> <<>>]

Init ==
    /\ context \in {"uninit", "valid"}
    /\ al = InitAl
    /\ reverbs = {}
    /\ sound_datas = {}
    /\ last = NoOp

-----------------------------------------------------------------------------
(* The context, owned by the environment *)

\* The context is created (lazily, outside these files) ...
ContextCreated ==
    /\ context = "uninit"
    /\ context' = "valid"
    /\ UNCHANGED <<al, reverbs, sound_datas, last>>

\* ... and destroyed, with the thread that owns it.
ContextDestroyed ==
    /\ context = "valid"
    /\ context' = "destroyed"
    /\ UNCHANGED <<al, reverbs, sound_datas, last>>

-----------------------------------------------------------------------------
(* The listener's operations as actions *)

SetVolume(volume) ==
    \E accepted \in BOOLEAN :
        /\ al' = set_volume(Enter(al), volume, accepted)
        /\ last' = [op |-> "set_volume", arg |-> volume, ret |-> <<>>]
        /\ UNCHANGED <<context, reverbs, sound_datas>>

GetVolume ==
    LET r == get_volume(Enter(al))
    IN  /\ al' = r[1]
        /\ last' = [op |-> "get_volume", arg |-> <<>>, ret |-> r[2]]
        /\ UNCHANGED <<context, reverbs, sound_datas>>

SetPosition(position) ==
    \E accepted \in BOOLEAN :
        /\ al' = set_position(Enter(al), position, accepted)
        /\ last' = [op |-> "set_position", arg |-> position, ret |-> <<>>]
        /\ UNCHANGED <<context, reverbs, sound_datas>>

GetPosition ==
    LET r == get_position(Enter(al))
    IN  /\ al' = r[1]
        /\ last' = [op |-> "get_position", arg |-> <<>>, ret |-> r[2]]
        /\ UNCHANGED <<context, reverbs, sound_datas>>

SetOrientation(at, up) ==
    \E accepted \in BOOLEAN :
        /\ al' = set_orientation(Enter(al), at, up, accepted)
        /\ last' = [op |-> "set_orientation", arg |-> <<at, up>>, ret |-> <<>>]
        /\ UNCHANGED <<context, reverbs, sound_datas>>

GetOrientation ==
    LET r == get_orientation(Enter(al))
    IN  /\ al' = r[1]
        /\ last' = [op |-> "get_orientation", arg |-> <<>>, ret |-> r[2]]
        /\ UNCHANGED <<context, reverbs, sound_datas>>

SetVelocity(velocity) ==
    \E accepted \in BOOLEAN :
        /\ al' = set_velocity(Enter(al), velocity, accepted)
        /\ last' = [op |-> "set_velocity", arg |-> velocity, ret |-> <<>>]
        /\ UNCHANGED <<context, reverbs, sound_datas>>

GetVelocity ==
    LET r == get_velocity(Enter(al))
    IN  /\ al' = r[1]
        /\ last' = [op |-> "get_velocity", arg |-> <<>>, ret |-> r[2]]
        /\ UNCHANGED <<context, reverbs, sound_datas>>

ListenerNext ==
    \/ ContextCreated
    \/ ContextDestroyed
    \/ \E volume \in Gains : SetVolume(volume)
    \/ GetVolume
    \/ \E position \in Vec3 : SetPosition(position)
    \/ GetPosition
    \/ \E at \in Vec3, up \in Vec3 : SetOrientation(at, up)
    \/ GetOrientation
    \/ \E velocity \in Vec3 : SetVelocity(velocity)
    \/ GetVelocity

-----------------------------------------------------------------------------
(* The operations of ReverbEffect as actions *)

\* Handles are left for one more object: a slot and an effect, or a buffer.
CanGenerate ==
    /\ al.gen.slot + al.gen.buffer < MaxHandles
    /\ al.gen.effect + al.gen.buffer < MaxHandles

\* The caller keeps the ReverbEffect of an Ok result.
Kept(r) == IF IsOk(r.ret) THEN {r.ret[2]} ELSE {}

ReverbNew ==
    /\ CanGenerate
    /\ \E rejected \in Rejections :
        LET r == new(Enter(al), rejected)
        IN  /\ al' = r.al
            /\ reverbs' = reverbs \cup Kept(r)
            /\ last' = [op |-> "new", arg |-> <<>>, ret |-> r.ret]
    /\ UNCHANGED <<context, sound_datas>>

ReverbPreset(reverb_properties) ==
    /\ CanGenerate
    /\ \E rejected \in Rejections :
        LET r == preset(Enter(al), reverb_properties, rejected)
        IN  /\ al' = r.al
            /\ reverbs' = reverbs \cup Kept(r)
            /\ last' = [op |-> "preset", arg |-> reverb_properties, ret |-> r.ret]
    /\ UNCHANGED <<context, sound_datas>>

ReverbSlot(self) ==
    /\ al' = Enter(al)
    /\ last' = [op |-> "slot", arg |-> self, ret |-> slot(self)]
    /\ UNCHANGED <<context, reverbs, sound_datas>>

\* The ReverbEffect goes out of scope.
ReverbDrop(self) ==
    /\ al' = drop_reverb(Enter(al), self)
    /\ reverbs' = reverbs \ {self}
    /\ last' = [op |-> "drop", arg |-> self, ret |-> <<>>]
    /\ UNCHANGED <<context, sound_datas>>

\* Sound::connect(&Some(effect)): a source's auxiliary send references the
\* slot of the effect, by value.
SoundConnect(self) ==
    /\ ValidContext
    /\ self.effect_slot_id \in DOMAIN al.attached
    /\ al.attached[self.effect_slot_id] < MaxSounds
    /\ al' = [al EXCEPT !.attached[self.effect_slot_id] = @ + 1]
    /\ UNCHANGED <<context, reverbs, sound_datas, last>>

\* Sound::connect(&None): the source lets go of the slot.
SoundDisconnect(self) ==
    /\ ValidContext
    /\ self.effect_slot_id \in DOMAIN al.attached
    /\ al.attached[self.effect_slot_id] > 0
    /\ al' = [al EXCEPT !.attached[self.effect_slot_id] = @ - 1]
    /\ UNCHANGED <<context, reverbs, sound_datas, last>>

ReverbNext ==
    \/ ContextCreated
    \/ ContextDestroyed
    \/ ReverbNew
    \/ \E reverb_properties \in Presets : ReverbPreset(reverb_properties)
    \/ \E self \in reverbs : ReverbSlot(self)
    \/ \E self \in reverbs : ReverbDrop(self)
    \/ \E self \in reverbs : SoundConnect(self)
    \/ \E self \in reverbs : SoundDisconnect(self)

\* ReverbEffect alone, with the sources that reference its slot.
SpecReverb == Init /\ [][ReverbNext]_vars

-----------------------------------------------------------------------------
(* The operations of SoundData as actions *)

SoundDataNew(file) ==
    /\ CanGenerate
    /\ \E rejected \in BufferRejections :
        LET r == sound_data_new(Enter(al), file, rejected)
        IN  /\ al' = r.al
            /\ sound_datas' = sound_datas \cup Kept(r)
            /\ last' = [op |-> "SoundData::new", arg |-> file, ret |-> r.ret]
    /\ UNCHANGED <<context, reverbs>>

GetSndinfo(s_data) ==
    /\ al' = Enter(al)
    /\ last' = [op |-> "get_sndinfo", arg |-> s_data, ret |-> get_sndinfo(s_data)]
    /\ UNCHANGED <<context, reverbs, sound_datas>>

GetBuffer(s_data) ==
    /\ al' = Enter(al)
    /\ last' = [op |-> "get_buffer", arg |-> s_data, ret |-> get_buffer(s_data)]
    /\ UNCHANGED <<context, reverbs, sound_datas>>

GetTags(s_data) ==
    /\ al' = Enter(al)
    /\ last' = [op |-> "get_tags", arg |-> s_data, ret |-> get_tags(s_data)]
    /\ UNCHANGED <<context, reverbs, sound_datas>>

\* The last owner of the SoundData lets go of it.
SoundDataDrop(self) ==
    /\ al' = drop_sound_data(Enter(al), self)
    /\ sound_datas' = sound_datas \ {self}
    /\ last' = [op |-> "SoundData::drop", arg |-> self, ret |-> <<>>]
    /\ UNCHANGED <<context, reverbs>>

SoundDataNext ==
    \/ ContextCreated
    \/ ContextDestroyed
    \/ \E file \in Files : SoundDataNew(file)
    \/ \E s_data \in sound_datas : GetSndinfo(s_data)
    \/ \E s_data \in sound_datas : GetBuffer(s_data)
    \/ \E s_data \in sound_datas : GetTags(s_data)
    \/ \E self \in sound_datas : SoundDataDrop(self)

\* SoundData alone.
SpecSound == Init /\ [][SoundDataNext]_vars

-----------------------------------------------------------------------------
(* The three files together *)

\* One file of each kind: one the decoder cannot open, and one of the longest
\* for each channel count.
FileKinds == {f \in Files : f.tags = "none" /\ (f.opens => f.frames = MaxFrames)}

\* The constructors and destructors of both objects, with a listener write
\* in between: the operations that share the subsystem's error flag.
Next ==
    \/ ContextCreated
    \/ ContextDestroyed
    \/ SetVolume(-1)
    \/ ReverbNew
    \/ ReverbPreset([p \in Params |-> 1])
    \/ \E self \in reverbs : ReverbDrop(self)
    \/ \E file \in FileKinds : SoundDataNew(file)
    \/ \E self \in sound_datas : SoundDataDrop(self)

Spec == Init /\ [][Next]_vars

\* The listener facade alone.
SpecListener == Init /\ [][ListenerNext]_vars

-----------------------------------------------------------------------------
(* Claims about the listener facade *)

ListenerSetters == {"set_volume", "set_position", "set_orientation", "set_velocity"}
ListenerGetters == {"get_volume", "get_position", "get_orientation", "get_velocity"}

\* What each listener operation returns when there is no valid context.
ListenerDefault(name) ==
    CASE name = "get_volume" -> 0
      [] name = "get_orientation" -> <<ZeroVec, ZeroVec>>
      [] name \in {"get_position", "get_velocity"} -> ZeroVec
      [] OTHER -> <<>>

\* This step is an operation of the binding, the one last' names: the other
\* steps are the environment's, which change the context or the number of
\* sources that reference a slot.
OperationStep ==
    /\ context' = context
    /\ ~(DOMAIN al'.attached = DOMAIN al.attached /\ al'.attached # al.attached)

\* This step is getter `get`, run under a valid context right after setter
\* `set`, which ran under a valid context too (each logged its one call).
SetThenGet(set, get) ==
    /\ last.op = set
    /\ Len(al.calls) = 1
    /\ last'.op = get
    /\ Len(al'.calls) = 1

\* The one call of the last operation raised no error.
WriteAccepted == al.calls[1][3] = AL_NO_ERROR

\* C1 as stated: under a valid context a get that follows a set returns the
\* value that was set, for every gain and every vector, whatever the
\* subsystem made of the write.
C1_SetGetOriginal ==
    [][ /\ SetThenGet("set_volume", "get_volume") => last'.ret = last.arg
        /\ SetThenGet("set_position", "get_position") => last'.ret = last.arg
        /\ SetThenGet("set_orientation", "get_orientation") => last'.ret = last.arg
      ]_vars

\* C1 amended: under a valid context a get that follows a set the subsystem
\* accepted (the write raised no error) returns exactly the value that was
\* set: the gain unclamped, the position, and the orientation as (at, up).
C1_SetGetAccepted ==
    [][ /\ (SetThenGet("set_volume", "get_volume") /\ WriteAccepted)
              => last'.ret = last.arg
        /\ (SetThenGet("set_position", "get_position") /\ WriteAccepted)
              => last'.ret = last.arg
        /\ (SetThenGet("set_orientation", "get_orientation") /\ WriteAccepted)
              => last'.ret = last.arg
      ]_vars

\* C1's case: get_orientation returned an (at, up) pair that was set, while
\* the gain holds a value above 1 that was set.
C1_Witness ==
    /\ last.op = "get_orientation"
    /\ Len(al.calls) = 1
    /\ last.ret = << <<1, 2, 3>>, <<3, 1, 2>> >>
    /\ al.listener.gain = 2

\* C2: without a valid context a listener operation makes no call into the
\* subsystem, raises no error and changes nothing there, and a getter returns
\* its zero default, whatever was set before.
C2_NoContextListener ==
    [][ ( /\ ~ValidContext
          /\ OperationStep
          /\ last'.op \in ListenerSetters \cup ListenerGetters )
        => /\ al' = Enter(al)
           /\ last'.ret = ListenerDefault(last'.op)
      ]_vars

\* C2's case: the context is gone, a gain and a position set earlier are
\* still in the subsystem, and get_position returned the zero vector without
\* a call.
C2_Witness ==
    /\ ~ValidContext
    /\ last.op = "get_position"
    /\ al.calls = <<>>
    /\ al.listener.position = <<1, 2, 3>>
    /\ al.listener.gain = 2
    /\ last.ret = ZeroVec

-----------------------------------------------------------------------------
(* Claims about the constructors and the destructors *)

Constructors == {"new", "preset", "SoundData::new"}

\* The subsystem's state apart from the log of calls.
State(s) == Enter(s)

\* The logged calls named in `fns`.
CallsTo(s, fns) == {i \in 1 .. Len(s.calls) : s.calls[i][1] \in fns}

\* C3: without a valid context ReverbEffect::new, ReverbEffect::preset and
\* SoundData::new return InvalidOpenALContext and do nothing else: no call to
\* the subsystem or the decoder, no handle, no parameter written, no object.
C3_NoContextConstructors ==
    [][ (~ValidContext /\ OperationStep /\ last'.op \in Constructors)
        => /\ last'.ret = Err(InvalidOpenALContext)
           /\ al' = Enter(al)
           /\ reverbs' = reverbs
           /\ sound_datas' = sound_datas
      ]_vars

\* C3's case: the context is gone while handles of earlier objects exist, and
\* preset returned the context error.
C3_Witness ==
    /\ context = "destroyed"
    /\ last.op = "preset"
    /\ last.ret = Err(InvalidOpenALContext)
    /\ al.gen.slot > 0
    /\ al.calls = <<>>

\* SoundData::new ran under a valid context on a file that opens, is mono or
\* stereo, and the error flag was clear at the check.
WellFormedLoad ==
    /\ last.op = "SoundData::new"
    /\ al.calls # <<>>
    /\ last.arg.opens
    /\ last.arg.channels \in {1, 2}
    /\ \E i \in CallsTo(al, {"alGetError"}) : al.calls[i][3] = AL_NO_ERROR

\* One buffer was generated and the samples were uploaded to it once.
OneBufferOneUpload(s_data) ==
    /\ Cardinality(CallsTo(al, {"alGenBuffers"})) = 1
    /\ Cardinality(CallsTo(al, {"alBufferData"})) = 1
    /\ s_data.al_buffer \in DOMAIN al.buffers
    /\ al.buffers[s_data.al_buffer].uploads = 1
    /\ al.buffers[s_data.al_buffer].size = SizeOfI16 * s_data.nb_sample

\* C4 as stated: a well-formed mono or stereo load returns Ok with a sample
\* count that is positive and equal to channels * frames, one buffer
\* generated and one upload made.
C4_PositiveCountOriginal ==
    WellFormedLoad
    => /\ IsOk(last.ret)
       /\ last.ret[2].nb_sample > 0
       /\ last.ret[2].nb_sample = last.arg.channels * last.arg.frames
       /\ OneBufferOneUpload(last.ret[2])

\* C4 amended: a well-formed mono or stereo load returns Ok with a sample
\* count equal to channels * frames, which is positive exactly when the file
\* has at least one frame (0 for a file without frames), one buffer
\* generated and one upload made.
C4_CountIsChannelsTimesFrames ==
    WellFormedLoad
    => /\ IsOk(last.ret)
       /\ last.ret[2].nb_sample = last.arg.channels * last.arg.frames
       /\ last.ret[2].nb_sample >= 0
       /\ (last.ret[2].nb_sample > 0 <=> last.arg.frames > 0)
       /\ OneBufferOneUpload(last.ret[2])

\* C4's case: a stereo file of two frames was loaded: four samples.
C4_Witness ==
    /\ WellFormedLoad
    /\ last.arg.channels = 2
    /\ last.arg.frames = 2
    /\ IsOk(last.ret)
    /\ last.ret[2].nb_sample = 4

\* C5: under a valid context, SoundData::new on a path the decoder cannot
\* open returns a LoadError with the decoder's diagnostic; the failed open is
\* the only call made: no sample read, no buffer generated, no upload, and
\* nothing in the subsystem changes.
C5_LoadError ==
    [][ ( /\ ValidContext
          /\ OperationStep
          /\ last'.op = "SoundData::new"
          /\ ~last'.arg.opens )
        => /\ last'.ret = Err(LoadError("SF_ERR_OPEN"))
           /\ al'.calls = << <<"SndFile::new", <<>>, "SF_ERR_OPEN">> >>
           /\ State(al') = State(al)
           /\ sound_datas' = sound_datas
      ]_vars

\* C5's case: a load failed on the open while an earlier SoundData holds its
\* buffer.
C5_Witness ==
    /\ ValidContext
    /\ last.op = "SoundData::new"
    /\ ~last.arg.opens
    /\ last.ret = Err(LoadError("SF_ERR_OPEN"))
    /\ sound_datas # {}

\* C6: under a valid context, SoundData::new on a file that opens but whose
\* channel count has no buffer format returns InvalidFormat before any
\* buffer is generated or uploaded: the buffers are as they were.
C6_InvalidFormat ==
    [][ ( /\ ValidContext
          /\ OperationStep
          /\ last'.op = "SoundData::new"
          /\ last'.arg.opens
          /\ get_channels_format(last'.arg.channels) = None )
        => /\ last'.ret = Err(InvalidFormat)
           /\ CallsTo(al', {"alGenBuffers", "alBufferData"}) = {}
           /\ al'.buffers = al.buffers
           /\ al'.gen = al.gen
           /\ sound_datas' = sound_datas
      ]_vars

\* C6's case: a file of three channels was refused; the samples were read,
\* no buffer exists.
C6_Witness ==
    /\ ValidContext
    /\ last.op = "SoundData::new"
    /\ last.arg.channels = 3
    /\ last.ret = Err(InvalidFormat)
    /\ CallsTo(al, {"read_i16"}) # {}
    /\ DOMAIN al.buffers = {}

\* C7 as stated: whenever preset returns Ok(e), the effect of e is bound
\* into the slot of e, and e.slot() is that slot's nonzero handle.
C7_PresetOkIsBound ==
    (last.op = "preset" /\ IsOk(last.ret))
    => /\ slot(last.ret[2]) # 0
       /\ slot(last.ret[2]) \in DOMAIN al.slots
       /\ al.slots[slot(last.ret[2])] = last.ret[2].effect_id

\* Both handles of the ReverbEffect are released, each once, by the calls of
\* the last operation.
ReleasedOnce(s, self) ==
    /\ self.effect_id \notin DOMAIN s.effects
    /\ self.effect_slot_id \notin DOMAIN s.slots
    /\ self.effect_id \in DOMAIN s.deleted.effect
    /\ s.deleted.effect[self.effect_id] = 1
    /\ self.effect_slot_id \in DOMAIN s.deleted.slot
    /\ s.deleted.slot[self.effect_slot_id] = 1
    /\ Cardinality(CallsTo(s, {"alDeleteEffects"})) = 1
    /\ Cardinality(CallsTo(s, {"alDeleteAuxiliaryEffectSlots"})) = 1

\* This step drops the ReverbEffect `self`.
DropStep(self) == OperationStep /\ reverbs' = reverbs \ {self}

\* C8 as stated: every constructed ReverbEffect releases both handles, each
\* exactly once, when it is dropped, whether or not a source references the
\* slot.
C8_DropReleasesOriginal ==
    [][ \A self \in reverbs : DropStep(self) => ReleasedOnce(al', self) ]_vars

\* C8 amended: a constructed ReverbEffect dropped while a valid context
\* exists and no source references its slot releases both handles, each
\* exactly once, in that drop.  Dropped without a valid context it makes no
\* call and releases neither; dropped while a source references the slot it
\* releases the effect object once and leaves the slot alive.  No handle is
\* ever released twice.
C8_DropReleases ==
    [][ \A self \in reverbs : DropStep(self) =>
          /\ (ValidContext /\ al.attached[self.effect_slot_id] = 0)
                => ReleasedOnce(al', self)
          /\ ~ValidContext => al' = Enter(al)
          /\ (ValidContext /\ al.attached[self.effect_slot_id] > 0)
                => /\ self.effect_id \notin DOMAIN al'.effects
                   /\ al'.deleted.effect[self.effect_id] = 1
                   /\ self.effect_slot_id \in DOMAIN al'.slots
          /\ \A kind \in DOMAIN al'.deleted :
                \A id \in DOMAIN al'.deleted[kind] : al'.deleted[kind][id] = 1
      ]_vars

\* C8's case: a ReverbEffect made by preset, that no source references, was
\* dropped under a valid context and both handles are gone.
C8_Witness ==
    /\ last.op = "drop"
    /\ al.calls # <<>>
    /\ ReleasedOnce(al, last.arg)
    /\ al.gen.effect = 1
    /\ al.error = AL_NO_ERROR

\* The logged call i wrote parameter ParamOrder[k] of `effect` with the
\* value the properties give it.
IsParamWrite(c, k, effect, props) ==
    /\ c[1] = (IF ParamOrder[k] = "decay_hflimit" THEN "alEffecti" ELSE "alEffectf")
    /\ c[2] = <<effect, ParamOrder[k], props[ParamOrder[k]]>>

FailedCheck ==
    \E i \in CallsTo(al, {"alGetError"}) : al.calls[i][3] # AL_NO_ERROR

\* The error the check of the last operation found.
FoundError ==
    LET i == CHOOSE j \in CallsTo(al, {"alGetError"}) : al.calls[j][3] # AL_NO_ERROR
    IN  al.calls[i][3]

\* The handles of `kind` generated by the calls of the last operation.
Generated(fn) == {al.calls[i][2][1] : i \in CallsTo(al, {fn})} \ {0}

-----------------------------------------------------------------------------
(* Claims about the shared buffer *)

\* The read-only accessors of a SoundData.
Accessors == {"get_sndinfo", "get_buffer", "get_tags"}

\* What the accessor `name` projects out of a SoundData.
Projection(name, s_data) ==
    CASE name = "get_sndinfo" -> s_data.snd_info
      [] name = "get_buffer" -> s_data.al_buffer
      [] name = "get_tags" -> s_data.sound_tags

\* The buffer of s_data holds one upload: the samples of its own file.
WrittenOnce(s, s_data) ==
    /\ s_data.al_buffer \in DOMAIN s.buffers
    /\ s.buffers[s_data.al_buffer] =
         [uploads |-> 1,
          format  |-> get_channels_format(s_data.snd_info.channels)[2],
          size    |-> SizeOfI16 * s_data.nb_sample,
          freq    |-> s_data.snd_info.samplerate]

\* C11: the buffer of every SoundData is written exactly once, by the upload
\* inside SoundData::new, before the SoundData is returned; while a SoundData
\* lives no step changes its buffer, and every get_sndinfo, get_buffer and
\* get_tags, on any SoundData, makes no call and leaves the handles, the
\* buffers, the sample info, the sample count and the tags as they were,
\* returning the stored field.
C11_WrittenOnceReadOnly ==
    [][ /\ \A s_data \in sound_datas' : WrittenOnce(al', s_data)
        /\ \A s_data \in sound_datas \cap sound_datas' :
             al'.buffers[s_data.al_buffer] = al.buffers[s_data.al_buffer]
        /\ (OperationStep /\ last'.op \in Accessors)
           => /\ al'.calls = <<>>
              /\ al'.buffers = al.buffers
              /\ al'.error = al.error
              /\ sound_datas' = sound_datas
              /\ last'.arg \in sound_datas
              /\ last'.ret = Projection(last'.op, last'.arg) ]_vars

\* C11's case: two SoundData are alive, loaded from different files, and an
\* accessor has just read one of them, whose buffer still holds its one
\* upload.
C11_Witness ==
    /\ last.op = "get_tags"
    /\ Cardinality(sound_datas) = 2
    /\ last.arg \in sound_datas
    /\ last.ret = "title"
    /\ last.arg.nb_sample = 4
    /\ \E other \in sound_datas : other.nb_sample = 1
    /\ al.buffers[last.arg.al_buffer].uploads = 1

-----------------------------------------------------------------------------
(* Claims about the error flag shared by the operations *)

\* The calls of the last operation into the subsystem that raised an error
\* (the query of the flag raises none: it reports).
RaisedError ==
    {i \in 1 .. Len(al.calls) :
        /\ al.calls[i][1] \notin {"alGetError", "SndFile::new", "read_i16",
                                  "get_sound_tags", "close"}
        /\ al.calls[i][3] # AL_NO_ERROR}

\* C12: a constructor returns InternalOpenALError only if one of the calls
\* it made into the subsystem during that same construction raised an
\* error: an error left pending by an earlier operation that never queries
\* the flag does not make a later construction fail.
C12_OwnErrorsOnly ==
    (/\ last.op \in Constructors
     /\ Len(last.ret) = 2
     /\ last.ret[1] = "Err"
     /\ last.ret[2] \notin {InvalidOpenALContext, InvalidFormat}
     /\ last.ret[2][1] = "InternalOpenALError")
    => RaisedError # {}

====
